---- MODULE Spec2Model ----
(***************************************************************************)
(* A model of scripts/generate_ics.js of ose-calendar: the date resolver   *)
(* parseDate, the calendar formatter generateICS and the batch run main.   *)
(*                                                                         *)
(* A JavaScript string is a sequence of one-character strings, so that    *)
(* the regular expressions, includes, split, trim and replace of the      *)
(* source are computed character by character.  A Date is its time value  *)
(* in days since 1970-01-01: every Date of the program is a midnight, and *)
(* the scheduled run's local zone is UTC (LocalOffsetMinutes).            *)
(***************************************************************************)
EXTENDS Integers, Sequences, FiniteSets, TLC

VARIABLES
    \* ---- the resolver called on its own (SpecParse)
    words,          \* the input phrase, as the words it is written with
    year,           \* the context year handed to parseDate
    result,         \* what parseDate returned, NotCalled before the call
    \* ---- one run of main (Spec)
    pc,             \* where main is
    fetchOutcome,   \* how fetchContent's promise settled, "pending" before it does
    markdownText,   \* the fetched document: what the regular expressions find in it
    currentYear,    \* new Date().getFullYear() of the run
    detectedYear,   \* the year main hands to parseDate
    eventIdx,       \* how many entries eventPattern.exec has returned
    events,         \* the events array
    successCount,
    failCount,
    warned,         \* the entries console.warn named, in order
    jsonFile,       \* events.json: whether the run wrote it, and the array written
    icsFile         \* events.ics: whether the run wrote it, and the lines written

parseVars == <<words, year, result>>
mainVars == <<pc, fetchOutcome, markdownText, currentYear, detectedYear, eventIdx, events,
              successCount, failCount, warned, jsonFile, icsFile>>
vars == <<words, year, result, pc, fetchOutcome, markdownText, currentYear, detectedYear,
          eventIdx, events, successCount, failCount, warned, jsonFile, icsFile>>

(***************************************************************************)
(* Characters and strings                                                  *)
(***************************************************************************)
DigitChars == <<"0", "1", "2", "3", "4", "5", "6", "7", "8", "9">>
UpperChars == <<"A", "B", "C", "D", "E", "F", "G", "H", "I", "J", "K", "L", "M",
                "N", "O", "P", "Q", "R", "S", "T", "U", "V", "W", "X", "Y", "Z">>
LowerChars == <<"a", "b", "c", "d", "e", "f", "g", "h", "i", "j", "k", "l", "m",
                "n", "o", "p", "q", "r", "s", "t", "u", "v", "w", "x", "y", "z">>

Range(f) == {f[i] : i \in DOMAIN f}

DigitSet == Range(DigitChars)

\* \d of the regular expressions
IsDigit(c) == c \in DigitSet

\* \w of the regular expressions: what \b is a boundary of
WordCharSet == DigitSet \cup Range(UpperChars) \cup Range(LowerChars) \cup {"_"}

IsWordChar(c) == c \in WordCharSet

DigitValue == [c \in DigitSet |-> (CHOOSE k \in 1..10 : DigitChars[k] = c) - 1]

\* The characters of a string are those of ASCII and Latin-1, written as they are, and
\* those beyond Latin-1 that are named here, written U+ and their code point: the white
\* space of trim, and the letters whose lower case holds a character of Latin-1.

\* the capital letters of Latin-1 beyond ASCII and their small letters
LatinUpperChars == <<"À", "Á", "Â", "Ã", "Ä", "Å", "Æ", "Ç", "È", "É", "Ê", "Ë", "Ì",
                    "Í", "Î", "Ï", "Ð", "Ñ", "Ò", "Ó", "Ô", "Õ", "Ö", "Ø", "Ù", "Ú",
                    "Û", "Ü", "Ý", "Þ">>
LatinLowerChars == <<"à", "á", "â", "ã", "ä", "å", "æ", "ç", "è", "é", "ê", "ë", "ì",
                    "í", "î", "ï", "ð", "ñ", "ò", "ó", "ô", "õ", "ö", "ø", "ù", "ú",
                    "û", "ü", "ý", "þ">>

CasedUpperChars == UpperChars \o LatinUpperChars
CasedLowerChars == LowerChars \o LatinLowerChars

\* the lower case of the capital letters whose lower case is one character of Latin-1
LowerOf ==
    [c \in Range(CasedUpperChars) |->
        CasedLowerChars[CHOOSE k \in 1..Len(CasedUpperChars) : CasedUpperChars[k] = c]]

\* the capital letters beyond Latin-1: I with dot above, whose lower case is i and the
\* combining dot above, Y with diaeresis, capital sharp s, the Kelvin and Angstrom signs
SpecialUpperChars == {"U+0130", "U+0178", "U+1E9E", "U+212A", "U+212B"}

SpecialLowerOf ==
    [c \in SpecialUpperChars |->
        IF c = "U+0130" THEN <<"i", "U+0307">>
        ELSE IF c = "U+0178" THEN <<"ÿ">>
        ELSE IF c = "U+1E9E" THEN <<"ß">>
        ELSE IF c = "U+212A" THEN <<"k">>
        ELSE <<"å">>]

\* the lower case of one character: one character, or two
LowerOfChar(c) ==
    IF c \in DOMAIN LowerOf THEN <<LowerOf[c]>>
    ELSE IF c \in SpecialUpperChars THEN SpecialLowerOf[c]
    ELSE <<c>>

RECURSIVE LowerFrom(_, _)
LowerFrom(s, i) == IF i > Len(s) THEN <<>> ELSE LowerOfChar(s[i]) \o LowerFrom(s, i + 1)

\* String.prototype.toLowerCase: each character's lower case, in the same order; the
\* length changes where a character's lower case is two
ToLowerCase(s) ==
    IF \A i \in 1..Len(s) : s[i] \notin SpecialUpperChars
    THEN [i \in 1..Len(s) |-> IF s[i] \in DOMAIN LowerOf THEN LowerOf[s[i]] ELSE s[i]]
    ELSE LowerFrom(s, 1)

\* s.startsWith(sub, i - 1): sub occurs in s at position i (1-based)
OccursAt(s, sub, i) ==
    /\ i >= 1
    /\ i + Len(sub) - 1 <= Len(s)
    /\ \A k \in 1..Len(sub) : s[i + k - 1] = sub[k]

\* String.prototype.includes: the empty string occurs in every string, another one
\* where its first character stands and the rest follows
Includes(s, sub) ==
    \/ sub = <<>>
    \/ \E i \in 1..(Len(s) - Len(sub) + 1) : s[i] = sub[1] /\ OccursAt(s, sub, i)

\* String.prototype.indexOf from position `from` (1-based), 0 when there is none
RECURSIVE IndexOf(_, _, _)
IndexOf(s, sub, from) ==
    IF from + Len(sub) - 1 > Len(s) THEN 0
    ELSE IF OccursAt(s, sub, from) THEN from
    ELSE IndexOf(s, sub, from + 1)

\* String.prototype.replace(sub, ""): the first occurrence of a string pattern is removed
ReplaceFirst(s, sub) ==
    LET i == IndexOf(s, sub, 1)
    IN  IF i = 0 THEN s
        ELSE SubSeq(s, 1, i - 1) \o SubSeq(s, i + Len(sub), Len(s))

\* String.prototype.split on a non-empty separator: the pieces between its
\* occurrences, found left to right without overlap
RECURSIVE SplitFrom(_, _, _)
SplitFrom(s, sep, from) ==
    LET i == IndexOf(s, sep, from)
    IN  IF i = 0 THEN <<SubSeq(s, from, Len(s))>>
        ELSE <<SubSeq(s, from, i - 1)>> \o SplitFrom(s, sep, i + Len(sep))

Split(s, sep) == SplitFrom(s, sep, 1)

\* WhiteSpace and LineTerminator: tab, line feed, vertical tab, form feed, carriage
\* return, space, no-break space, the space separators beyond Latin-1, the line and
\* paragraph separators, and the byte order mark
WhiteSpaceChars ==
    {"\t", "\n", "", "\f", "\r", " ", " ",
     "U+1680", "U+2000", "U+2001", "U+2002", "U+2003", "U+2004", "U+2005", "U+2006",
     "U+2007", "U+2008", "U+2009", "U+200A", "U+2028", "U+2029", "U+202F", "U+205F",
     "U+3000", "U+FEFF"}

\* String.prototype.trim: the white space and the line terminators at both ends go
RECURSIVE TrimStart(_)
TrimStart(s) == IF s # <<>> /\ Head(s) \in WhiteSpaceChars THEN TrimStart(Tail(s)) ELSE s

RECURSIVE TrimEnd(_)
TrimEnd(s) ==
    IF s # <<>> /\ s[Len(s)] \in WhiteSpaceChars THEN TrimEnd(SubSeq(s, 1, Len(s) - 1)) ELSE s

Trim(s) == TrimEnd(TrimStart(s))

\* the end of the run of digits that starts at i: the last position of \d+ matched greedily
RECURSIVE DigitRunEnd(_, _)
DigitRunEnd(s, i) == IF i + 1 <= Len(s) /\ IsDigit(s[i + 1]) THEN DigitRunEnd(s, i + 1) ELSE i

\* s.match(/(\d+)/): the first run of digits, <<>> for no match
FirstDigitRun(s) ==
    IF \E i \in 1..Len(s) : IsDigit(s[i])
    THEN LET i == CHOOSE k \in 1..Len(s) : IsDigit(s[k]) /\ \A j \in 1..(k - 1) : ~IsDigit(s[j])
         IN  SubSeq(s, i, DigitRunEnd(s, i))
    ELSE <<>>

\* parseInt of a run of digits
RECURSIVE ParseInt(_)
ParseInt(ds) ==
    IF ds = <<>> THEN 0
    ELSE 10 * ParseInt(SubSeq(ds, 1, Len(ds) - 1)) + DigitValue[ds[Len(ds)]]

\* String(n) of an integer n >= 0, as a template literal writes it
RECURSIVE NumberToString(_)
NumberToString(n) ==
    IF n < 10 THEN <<DigitChars[n + 1]>>
    ELSE NumberToString(n \div 10) \o <<DigitChars[(n % 10) + 1]>>

\* String.prototype.padStart(width, "0") of the decimal digits of n >= 0
RECURSIVE PadZero(_, _)
PadZero(ds, width) == IF Len(ds) >= width THEN ds ELSE PadZero(<<"0">> \o ds, width)

OrdinalSuffixes == {<<"s", "t">>, <<"n", "d">>, <<"r", "d">>, <<"t", "h">>}

\* dateStr.replace(/(\d+)(st|nd|rd|th)/g, "$1"): scanning from the left, a run of
\* digits that st, nd, rd or th follows keeps its digits and loses the suffix
RECURSIVE StripFrom(_, _)
StripFrom(s, i) ==
    IF i > Len(s) THEN <<>>
    ELSE IF ~IsDigit(s[i]) THEN <<s[i]>> \o StripFrom(s, i + 1)
    ELSE LET j == DigitRunEnd(s, i)
         IN  IF j + 2 <= Len(s) /\ SubSeq(s, j + 1, j + 2) \in OrdinalSuffixes
             THEN SubSeq(s, i, j) \o StripFrom(s, j + 3)
             ELSE SubSeq(s, i, j) \o StripFrom(s, j + 1)

StripOrdinals(s) == StripFrom(s, 1)

\* the positions where /\b(\d{4})\b/ matches
YearMatchAt(s, i) ==
    /\ i + 3 <= Len(s)
    /\ \A k \in 0..3 : IsDigit(s[i + k])
    /\ (i = 1 \/ ~IsWordChar(s[i - 1]))
    /\ (i + 3 = Len(s) \/ ~IsWordChar(s[i + 4]))

\* the first position from i on where /\b(\d{4})\b/ matches, 0 when there is none
RECURSIVE YearMatchFrom(_, _)
YearMatchFrom(s, i) ==
    IF i + 3 > Len(s) THEN 0
    ELSE IF YearMatchAt(s, i) THEN i
    ELSE YearMatchFrom(s, i + 1)

\* dateStr.match(/\b(\d{4})\b/): the first match's four digits, <<>> for no match
YearMatch(s) ==
    LET i == YearMatchFrom(s, 1)
    IN  IF i = 0 THEN <<>> ELSE SubSeq(s, i, i + 3)

(***************************************************************************)
(* Date: the time value is a number of days, every Date here a midnight    *)
(***************************************************************************)
\* the offset of the run's local zone from UTC: the workflow's runner keeps UTC
LocalOffsetMinutes == 0

\* the day number of the civil date y-m-d, m in 1..12 (Day(MakeDate) of a month's first day)
DayFromCivil(y, m, d) ==
    LET yy == IF m <= 2 THEN y - 1 ELSE y
        era == yy \div 400
        yoe == yy - era * 400
        mp == IF m > 2 THEN m - 3 ELSE m + 9
        doy == (153 * mp + 2) \div 5 + d - 1
        doe == yoe * 365 + yoe \div 4 - yoe \div 100 + doy
    IN  era * 146097 + doe - 719468

\* YearFromTime, MonthFromTime + 1 and DateFromTime of a day number
CivilFromDay(t) ==
    LET z == t + 719468
        era == z \div 146097
        doe == z - era * 146097
        yoe == (doe - doe \div 1460 + doe \div 36524 - doe \div 146096) \div 365
        doy == doe - (365 * yoe + yoe \div 4 - yoe \div 100)
        mp == (5 * doy + 2) \div 153
        d == doy - (153 * mp + 2) \div 5 + 1
        m == IF mp < 10 THEN mp + 3 ELSE mp - 9
    IN  [y |-> yoe + era * 400 + (IF m <= 2 THEN 1 ELSE 0), m |-> m, d |-> d]

\* MakeDay(year, month, date) with a month index counted from 0: the month's first
\* day, then date - 1 days on, whatever date is
MakeDay(y, monthIndex, dt) ==
    DayFromCivil(y + monthIndex \div 12, (monthIndex % 12) + 1, 1) + dt - 1

\* the time values of a Date reach 8.64e15 ms, which is 100,000,000 days, either side
\* of the epoch
MaxTimeDays == 100000000

\* the time value of an invalid Date; no day number of a valid Date equals it
NaN == MaxTimeDays + 1

\* TimeClip: a time value beyond the range is NaN
TimeClip(t) == IF -MaxTimeDays <= t /\ t <= MaxTimeDays THEN t ELSE NaN

\* new Date(year, monthIndex, day): a year of 0..99 is taken as 1900 + year.  The runs
\* of digits of the phrases have nine digits at most
NewDate(y, monthIndex, dt) ==
    TimeClip(MakeDay(IF 0 <= y /\ y <= 99 THEN 1900 + y ELSE y, monthIndex, dt))

\* Date.prototype.getDate
GetDate(t) == IF t = NaN THEN NaN ELSE CivilFromDay(t).d

\* Date.prototype.setDate: an invalid Date stays invalid
SetDate(t, dt) ==
    IF t = NaN THEN NaN ELSE TimeClip(MakeDay(CivilFromDay(t).y, CivilFromDay(t).m - 1, dt))

\* Date.prototype.setFullYear: an invalid Date is taken as the epoch
SetFullYear(t, y) ==
    IF t = NaN THEN TimeClip(MakeDay(y, 0, 1))
    ELSE TimeClip(MakeDay(y, CivilFromDay(t).m - 1, CivilFromDay(t).d))

\* what toISOString throws on an invalid Date
RangeError == <<"RangeError: Invalid time value">>

\* toISOString().split('T')[0]: the UTC date of the local midnight, the year on four
\* digits (on six and a sign outside 0..9999); RangeError for the throw on an invalid Date
ToISODate(t) ==
    IF t = NaN THEN RangeError ELSE
    LET c == CivilFromDay(IF LocalOffsetMinutes > 0 THEN t - 1 ELSE t)
        yearText == IF 0 <= c.y /\ c.y <= 9999
                    THEN PadZero(NumberToString(c.y), 4)
                    ELSE <<IF c.y < 0 THEN "-" ELSE "+">>
                         \o PadZero(NumberToString(IF c.y < 0 THEN -c.y ELSE c.y), 6)
    IN  yearText \o <<"-">> \o PadZero(NumberToString(c.m), 2)
                 \o <<"-">> \o PadZero(NumberToString(c.d), 2)

(***************************************************************************)
(* parseDate                                                               *)
(***************************************************************************)
january == <<"j", "a", "n", "u", "a", "r", "y">>
february == <<"f", "e", "b", "r", "u", "a", "r", "y">>
march == <<"m", "a", "r", "c", "h">>
april == <<"a", "p", "r", "i", "l">>
may == <<"m", "a", "y">>
june == <<"j", "u", "n", "e">>
july == <<"j", "u", "l", "y">>
august == <<"a", "u", "g", "u", "s", "t">>
september == <<"s", "e", "p", "t", "e", "m", "b", "e", "r">>
october == <<"o", "c", "t", "o", "b", "e", "r">>
november == <<"n", "o", "v", "e", "m", "b", "e", "r">>
december == <<"d", "e", "c", "e", "m", "b", "e", "r">>

\* Object.keys(monthMap) in insertion order; monthMap[name] is the name's position
monthMap == <<january, february, march, april, may, june,
              july, august, september, october, november, december>>

notAnnouncedYet == <<"n", "o", "t", " ", "a", "n", "n", "o", "u", "n", "c", "e", "d", " ", "y", "e", "t">>

dashSeparator == <<" ", "-", " ">>
toSeparator == <<" ", "t", "o", " ">>

\* null; an ISO date is never empty, and the empty string is as falsy as null
Null == <<>>

NullResult == [startDate |-> Null, endDate |-> Null]

\* the call that toISOString's RangeError ends: it returns nothing
Thrown == [startDate |-> RangeError, endDate |-> RangeError]

\* the object parseDate returns, unless one of the two toISOString calls threw
ReturnOrThrow(startISO, endISO) ==
    IF startISO = RangeError \/ endISO = RangeError THEN Thrown
    ELSE [startDate |-> startISO, endDate |-> endISO]

\* no month: the null of startMonth, endMonth and month
NoMonth == 0

MonthsIn(s) == LET lower == ToLowerCase(s) IN {k \in 1..Len(monthMap) : Includes(lower, monthMap[k])}

\* the loop without break: each later month of the table overwrites, the last one stays
LastMonthIn(s) ==
    LET found == MonthsIn(s)
    IN  IF found = {} THEN NoMonth ELSE CHOOSE k \in found : \A j \in found : k >= j

\* FirstMonthIn without its break
FirstMonthNoBreak(s) == LastMonthIn(s)

\* the loop with break: the first month of the table that occurs in s
FirstMonthIn(s) ==
    LET found == MonthsIn(s)
    IN  IF found = {} THEN NoMonth ELSE CHOOSE k \in found : \A j \in found : k <= j

\* YearOverride that removes the year's text and keeps the context year
YearOverrideStripOnly(dateStr, ctxYear) ==
    LET yearMatch == YearMatch(dateStr)
    IN  IF yearMatch # <<>>
        THEN [year |-> ctxYear,
              dateStr |-> ReplaceFirst(dateStr, <<",", " ">> \o NumberToString(ParseInt(yearMatch)))]
        ELSE [year |-> ctxYear, dateStr |-> dateStr]

\* the year override: the year in force and the phrase with ", <year>" removed
YearOverride(dateStr, ctxYear) ==
    LET yearMatch == YearMatch(dateStr)
    IN  IF yearMatch # <<>>
        THEN [year |-> ParseInt(yearMatch),
              dateStr |-> ReplaceFirst(dateStr, <<",", " ">> \o NumberToString(ParseInt(yearMatch)))]
        ELSE [year |-> ctxYear, dateStr |-> dateStr]

\* Rollover by the dates alone, the months not looked at
RolloverByDate(startDate, endDate, startMonth, endMonth) ==
    startDate # NaN /\ endDate # NaN /\ endDate < startDate

\* the rollover test of a range: the end's year moves on only if the end date is
\* before the start date and the end month's number is below the start month's; no
\* comparison with an invalid Date is true
Rollover(startDate, endDate, startMonth, endMonth) ==
    startDate # NaN /\ endDate # NaN /\ endDate < startDate /\ endMonth < startMonth

\* the start month of a range: the start part's month, else the first month of
\* the whole phrase
StartMonthOf(startPart, dateStr) ==
    LET found == LastMonthIn(startPart)
    IN  IF found # NoMonth THEN found ELSE FirstMonthIn(dateStr)

\* EndMonthOf without the reuse of the start month
EndMonthNoReuse(endPart, startMonth) == LastMonthIn(endPart)

\* the end month of a range: the end part's month, else the start month
EndMonthOf(endPart, startMonth) ==
    LET found == LastMonthIn(endPart)
    IN  IF found # NoMonth THEN found ELSE startMonth

\* SeparatorOf that looks for " to " first
SeparatorToFirst(dateStr) ==
    IF Includes(dateStr, toSeparator) THEN toSeparator ELSE dashSeparator

\* the separator a range is split on: " - " where the phrase holds it, else " to "
SeparatorOf(dateStr) ==
    IF Includes(dateStr, dashSeparator) THEN dashSeparator ELSE toSeparator

\* the range branch, on a phrase that holds a separator
ParseRange(dateStr, yr) ==
    LET separator == SeparatorOf(dateStr)
        parts == Split(dateStr, separator)
    IN  IF Len(parts) # 2 THEN NullResult
        ELSE
        LET startPart == Trim(parts[1])
            endPart == Trim(parts[2])
            startMonth == StartMonthOf(startPart, dateStr)
            endMonth == EndMonthOf(endPart, startMonth)
            startDayMatch == FirstDigitRun(startPart)
            endDayMatch == FirstDigitRun(endPart)
        IN  IF startDayMatch # <<>> /\ endDayMatch # <<>>
               /\ startMonth # NoMonth /\ endMonth # NoMonth
            THEN LET startDate == NewDate(yr, startMonth - 1, ParseInt(startDayMatch))
                     endDate0 == NewDate(yr, endMonth - 1, ParseInt(endDayMatch))
                     endDate1 == IF Rollover(startDate, endDate0, startMonth, endMonth)
                                 THEN SetFullYear(endDate0, yr + 1)
                                 ELSE endDate0
                 IN  ReturnOrThrow(ToISODate(startDate),
                                   ToISODate(SetDate(endDate1, GetDate(endDate1) + 1)))
            ELSE NullResult

\* the single-day branch
ParseSingle(dateStr, yr) ==
    LET month == FirstMonthIn(dateStr)
        dayMatch == FirstDigitRun(dateStr)
    IN  IF dayMatch # <<>> /\ month # NoMonth
        THEN LET date == NewDate(yr, month - 1, ParseInt(dayMatch))
             IN  ReturnOrThrow(ToISODate(date), ToISODate(SetDate(date, GetDate(date) + 1)))
        ELSE NullResult

IsRangePhrase(dateStr) == Includes(dateStr, dashSeparator) \/ Includes(dateStr, toSeparator)

\* IsNotAnnounced without the lowering of the case
IsNotAnnouncedExact(dateStr) == Includes(dateStr, notAnnouncedYet)

\* the test for an unscheduled event, whatever the letters' case
IsNotAnnounced(dateStr) == Includes(ToLowerCase(dateStr), notAnnouncedYet)

parseDate(dateStr, ctxYear) ==
    LET stripped == StripOrdinals(dateStr)
    IN  IF IsNotAnnounced(stripped) THEN NullResult
        ELSE LET o == YearOverride(stripped, ctxYear)
             IN  IF IsRangePhrase(o.dateStr)
                 THEN ParseRange(o.dateStr, o.year)
                 ELSE ParseSingle(o.dateStr, o.year)

(***************************************************************************)
(* generateICS and the sort of main                                        *)
(***************************************************************************)
\* s.replace(/-/g, '')
RECURSIVE RemoveHyphens(_)
RemoveHyphens(s) ==
    IF s = <<>> THEN <<>>
    ELSE (IF Head(s) = "-" THEN <<>> ELSE <<Head(s)>>) \o RemoveHyphens(Tail(s))

midnightZ == <<"T", "0", "0", "0", "0", "0", "0", "Z">>

\* the lines one event adds: none unless both its dates are truthy.  UID is a random
\* token and DTSTAMP the run's day; the entry's name stands for the fields copied
\* from it (name, mode, location, url)
EventLines(event) ==
    IF event.startDate # Null /\ event.endDate # Null
    THEN << [name |-> "BEGIN", value |-> "VEVENT"],
            [name |-> "UID", value |-> "random"],
            [name |-> "DTSTAMP", value |-> "now"],
            [name |-> "DTSTART", value |-> RemoveHyphens(event.startDate) \o midnightZ],
            [name |-> "DTEND", value |-> RemoveHyphens(event.endDate) \o midnightZ],
            [name |-> "SUMMARY", value |-> event.name],
            [name |-> "DESCRIPTION", value |-> event.name],
            [name |-> "URL", value |-> event.name],
            [name |-> "LOCATION", value |-> event.name],
            [name |-> "END", value |-> "VEVENT"] >>
    ELSE <<>>

RECURSIVE AllEventLines(_)
AllEventLines(evs) ==
    IF evs = <<>> THEN <<>> ELSE EventLines(Head(evs)) \o AllEventLines(Tail(evs))

generateICS(evs) ==
    << [name |-> "BEGIN", value |-> "VCALENDAR"],
       [name |-> "VERSION", value |-> "2.0"],
       [name |-> "PRODID", value |-> "-//Open Source Events//EN"],
       [name |-> "CALSCALE", value |-> "GREGORIAN"],
       [name |-> "METHOD", value |-> "PUBLISH"] >>
    \o AllEventLines(evs)
    \o << [name |-> "END", value |-> "VCALENDAR"] >>

\* the collation rank of the characters of an ISO date: the signs, then the digits
CharRank(c) == IF c = "-" THEN 0 ELSE IF c = "+" THEN 1 ELSE 2 + DigitValue[c]

\* a.localeCompare(b) of two ISO dates: the sign of the first difference
RECURSIVE LocaleCompare(_, _)
LocaleCompare(a, b) ==
    IF a = <<>> /\ b = <<>> THEN 0
    ELSE IF a = <<>> THEN -1
    ELSE IF b = <<>> THEN 1
    ELSE IF CharRank(Head(a)) < CharRank(Head(b)) THEN -1
    ELSE IF CharRank(Head(a)) > CharRank(Head(b)) THEN 1
    ELSE LocaleCompare(Tail(a), Tail(b))

\* the comparator of events.sort
CompareEvents(a, b) == LocaleCompare(a.startDate, b.startDate)

\* InsertSorted that puts an element before its equals
RECURSIVE InsertBeforeEquals(_, _)
InsertBeforeEquals(sorted, e) ==
    IF sorted = <<>> THEN <<e>>
    ELSE IF CompareEvents(Head(sorted), e) >= 0 THEN <<e>> \o sorted
    ELSE <<Head(sorted)>> \o InsertBeforeEquals(Tail(sorted), e)

\* Array.prototype.sort is stable: an element goes behind those it does not precede
RECURSIVE InsertSorted(_, _)
InsertSorted(sorted, e) ==
    IF sorted = <<>> THEN <<e>>
    ELSE IF CompareEvents(Head(sorted), e) > 0 THEN <<e>> \o sorted
    ELSE <<Head(sorted)>> \o InsertSorted(Tail(sorted), e)

RECURSIVE SortEvents(_)
SortEvents(evs) ==
    IF evs = <<>> THEN <<>>
    ELSE InsertSorted(SortEvents(SubSeq(evs, 1, Len(evs) - 1)), evs[Len(evs)])

\* the record main pushes for a resolved entry
EventRecord(entry, r) ==
    [name |-> entry.name, start_date |-> r.startDate, end_date |-> r.endDate,
     startDate |-> r.startDate, endDate |-> r.endDate, original_date |-> entry.date]

\* the object JSON.stringify is given for an event
JsonRecord(e) ==
    [name |-> e.name, start_date |-> e.start_date, end_date |-> e.end_date,
     original_date |-> e.original_date]

JsonRecords(evs) == [i \in 1..Len(evs) |-> JsonRecord(evs[i])]

(***************************************************************************)
(* Inputs                                                                  *)
(***************************************************************************)
w5 == <<"5">>
w3rd == <<"3", "r", "d">>
w31 == <<"3", "1">>
w4th == <<"4", "t", "h">>
w4 == <<"4">>
w6 == <<"6">>
w18 == <<"1", "8">>
w19 == <<"1", "9">>
w28 == <<"2", "8">>
w2 == <<"2">>
wJanuary == <<"J", "a", "n", "u", "a", "r", "y">>
wMarch == <<"M", "a", "r", "c", "h">>
wApril == <<"A", "p", "r", "i", "l">>
wDecember == <<"D", "e", "c", "e", "m", "b", "e", "r">>
wDash == <<"-">>
wTo == <<"t", "o">>
wCommaYear == <<",", " ", "2", "0", "2", "6">>
wYear == <<"2", "0", "2", "6">>
wCommaOldYear == <<",", " ", "0", "0", "5", "0">>
wNotAnnounced == <<"N", "o", "t", " ", "a", "n", "n", "o", "u", "n", "c", "e", "d", " ", "y", "e", "t">>
wNotAnnouncedUpper == <<"N", "O", "T", " ", "A", "N", "N", "O", "U", "N", "C", "E", "D", " ", "Y", "E", "T">>
w31January == <<"3", "1", " ", "J", "a", "n", "u", "a", "r", "y">>
wTBD == <<"T", "B", "D">>
wHugeDay == <<"1", "0", "0", "0", "0", "0", "0", "0", "0">>
wFebruary == <<"F", "e", "b", "r", "u", "a", "r", "y">>
w31February == <<"3", "1", " ", "F", "e", "b", "r", "u", "a", "r", "y">>

\* a phrase is its words with one space between them; a word that starts with a comma
\* follows the word before it directly
RECURSIVE JoinWords(_)
JoinWords(ws) ==
    IF ws = <<>> THEN <<>>
    ELSE IF Len(ws) = 1 THEN ws[1]
    ELSE JoinWords(SubSeq(ws, 1, Len(ws) - 1))
         \o (IF Head(ws[Len(ws)]) = "," THEN <<>> ELSE <<" ">>) \o ws[Len(ws)]

\* the words the resolver's phrases are written with
Vocabulary == {w31, w3rd, wJanuary, wApril, w31January, wDash, wTo, wCommaYear, wYear,
               wCommaOldYear, wNotAnnounced}

MaxWords == 4

Phrases == UNION {[1..n -> Vocabulary] : n \in 0..MaxWords}

ContextYears == {2024, 2025}

\* the words of the phrases with several separators
SeparatorVocabulary == {w31, w3rd, wJanuary, wApril, wDash, wTo, wCommaYear}

MaxSeparatorWords == 5

SeparatorPhrases == UNION {[1..n -> SeparatorVocabulary] : n \in 0..MaxSeparatorWords}

\* the words of the phrases whose days are past their month's end
OverflowVocabulary == {w31, w3rd, wHugeDay, wFebruary, w31February, wApril, wDash,
                       wCommaYear}

MaxOverflowWords == 4

OverflowPhrases == UNION {[1..n -> OverflowVocabulary] : n \in 0..MaxOverflowWords}

\* the date phrases of the documents main reads
DocPhrases == {JoinWords(<<w4th, wMarch>>), JoinWords(<<w18, wDash, w19, wJanuary>>),
               JoinWords(<<w4, wMarch, wDash, w6, wMarch>>), wNotAnnounced, wTBD,
               JoinWords(<<wHugeDay, wMarch>>)}

MaxEntries == 3

NoYear == 0

\* the year the heading names, the first 20xx of the document, the wall clock's year
HeadingYears == {NoYear, 2025}
ContentYears == {NoYear, 2026}
ClockYears == {2026}

DocumentsOf(n) ==
    {[headingYear |-> h, contentYear |-> c,
      entries |-> [i \in 1..n |-> [name |-> i, date |-> f[i]]]] :
        h \in HeadingYears, c \in ContentYears, f \in [1..n -> DocPhrases]}

Documents == UNION {DocumentsOf(n) : n \in 0..MaxEntries}

\* a file the run has not written, and one it wrote
NotWritten == [written |-> FALSE, whole |-> FALSE, content |-> <<>>]
Written(content) == [written |-> TRUE, whole |-> TRUE, content |-> content]

\* a file whose write threw after the open: writeFileSync has emptied the file and the
\* write has cut the text off, after the first k records or lines of it
CutOff(content, k) == [written |-> TRUE, whole |-> FALSE, content |-> SubSeq(content, 1, k)]

\* what a write that throws leaves of a file: the file as it was if the open failed,
\* the text cut off somewhere if the write failed after it
FailedWrites(file, content) == {file} \cup {CutOff(content, k) : k \in 0..Len(content)}

\* markdownText before the fetch resolves
NoDocument == [headingYear |-> NoYear, contentYear |-> NoYear, entries |-> <<>>]

(***************************************************************************)
(* The resolver called on its own                                          *)
(***************************************************************************)
MainIdle ==
    /\ pc = "idle"
    /\ fetchOutcome = "pending"
    /\ markdownText = NoDocument
    /\ currentYear = NoYear
    /\ detectedYear = NoYear
    /\ eventIdx = 0
    /\ events = <<>>
    /\ successCount = 0
    /\ failCount = 0
    /\ warned = <<>>
    /\ jsonFile = NotWritten
    /\ icsFile = NotWritten

NotReturned == [returned |-> FALSE, startDate |-> Null, endDate |-> Null]

\* what the call returned, once it has
ReturnedResult(r) == [returned |-> TRUE, startDate |-> r.startDate, endDate |-> r.endDate]

\* the call that threw returned nothing
Threw == [returned |-> FALSE, startDate |-> RangeError, endDate |-> RangeError]

OutcomeOf(r) == IF r = Thrown THEN Threw ELSE ReturnedResult(r)

InitParse ==
    /\ words \in Phrases
    /\ year = NoYear
    /\ result = NotReturned
    /\ MainIdle

\* the call parseDate(dateStr, year) on the phrase, with a context year
CallParseDate ==
    /\ result = NotReturned
    /\ pc = "idle"
    /\ \E y \in ContextYears :
          /\ year' = y
          /\ result' = OutcomeOf(parseDate(JoinWords(words), y))
    /\ UNCHANGED words
    /\ UNCHANGED mainVars

NextParse == CallParseDate

SpecParse == InitParse /\ [][NextParse]_vars

(***************************************************************************)
(* main                                                                    *)
(***************************************************************************)
ParseIdle ==
    /\ words = <<>>
    /\ year = NoYear
    /\ result = NotReturned

\* main is called when the script loads: it reads the clock and awaits the fetch
Init ==
    /\ ParseIdle
    /\ pc = "fetching"
    /\ fetchOutcome = "pending"
    /\ markdownText = NoDocument
    /\ currentYear \in ClockYears
    /\ detectedYear = NoYear
    /\ eventIdx = 0
    /\ events = <<>>
    /\ successCount = 0
    /\ failCount = 0
    /\ warned = <<>>
    /\ jsonFile = NotWritten
    /\ icsFile = NotWritten

\* fetchContent: status 200 and the body's end resolve the promise with the document
FetchResolve ==
    /\ pc = "fetching"
    /\ \E doc \in Documents : markdownText' = doc
    /\ fetchOutcome' = "resolved"
    /\ pc' = "detect"
    /\ UNCHANGED <<currentYear, detectedYear, eventIdx, events, successCount, failCount,
                   warned, jsonFile, icsFile>>
    /\ UNCHANGED parseVars

\* fetchContent: a status other than 200 rejects; main's catch logs it and main ends
FetchRejectStatus ==
    /\ pc = "fetching"
    /\ fetchOutcome' = "status"
    /\ pc' = "caught"
    /\ UNCHANGED <<markdownText, currentYear, detectedYear, eventIdx, events, successCount,
                   failCount, warned, jsonFile, icsFile>>
    /\ UNCHANGED parseVars

\* fetchContent: the request's error event rejects; main's catch logs it and main ends
FetchRejectError ==
    /\ pc = "fetching"
    /\ fetchOutcome' = "error"
    /\ pc' = "caught"
    /\ UNCHANGED <<markdownText, currentYear, detectedYear, eventIdx, events, successCount,
                   failCount, warned, jsonFile, icsFile>>
    /\ UNCHANGED parseVars

\* the year detection: the heading's year, else the first 20xx, else the clock's year
DetectedYear(doc, clockYear) ==
    IF doc.headingYear # NoYear THEN doc.headingYear
    ELSE IF doc.contentYear # NoYear THEN doc.contentYear
    ELSE clockYear

DetectYear ==
    /\ pc = "detect"
    /\ detectedYear' = DetectedYear(markdownText, currentYear)
    /\ pc' = "extract"
    /\ UNCHANGED <<fetchOutcome, markdownText, currentYear, eventIdx, events, successCount,
                   failCount, warned, jsonFile, icsFile>>
    /\ UNCHANGED parseVars

\* ExtractEvent that leaves the loop at the first phrase it cannot resolve
ExtractEventOrBreak ==
    /\ pc = "extract"
    /\ eventIdx < Len(markdownText.entries)
    /\ LET entry == markdownText.entries[eventIdx + 1]
           r == parseDate(entry.date, detectedYear)
       IN  IF r = Thrown
           THEN /\ pc' = "caught"
                /\ UNCHANGED <<eventIdx, events, successCount, failCount, warned>>
           ELSE IF r.startDate # Null /\ r.endDate # Null
           THEN /\ events' = Append(events, EventRecord(entry, r))
                /\ successCount' = successCount + 1
                /\ eventIdx' = eventIdx + 1
                /\ UNCHANGED <<pc, failCount, warned>>
           ELSE /\ warned' = Append(warned, entry.name)
                /\ failCount' = failCount + 1
                /\ eventIdx' = Len(markdownText.entries)
                /\ UNCHANGED <<pc, events, successCount>>
    /\ UNCHANGED <<fetchOutcome, markdownText, currentYear, detectedYear, jsonFile, icsFile>>
    /\ UNCHANGED parseVars

\* one turn of the while loop: the next entry eventPattern finds is resolved and
\* pushed, or warned about and skipped; a RangeError of parseDate leaves the loop for
\* main's catch, which logs it, and main ends
ExtractEvent ==
    /\ pc = "extract"
    /\ eventIdx < Len(markdownText.entries)
    /\ LET entry == markdownText.entries[eventIdx + 1]
           r == parseDate(entry.date, detectedYear)
       IN  IF r = Thrown
           THEN /\ pc' = "caught"
                /\ UNCHANGED <<eventIdx, events, successCount, failCount, warned>>
           ELSE IF r.startDate # Null /\ r.endDate # Null
           THEN /\ events' = Append(events, EventRecord(entry, r))
                /\ successCount' = successCount + 1
                /\ eventIdx' = eventIdx + 1
                /\ UNCHANGED <<pc, failCount, warned>>
           ELSE /\ warned' = Append(warned, entry.name)
                /\ failCount' = failCount + 1
                /\ eventIdx' = eventIdx + 1
                /\ UNCHANGED <<pc, events, successCount>>
    /\ UNCHANGED <<fetchOutcome, markdownText, currentYear, detectedYear, jsonFile, icsFile>>
    /\ UNCHANGED parseVars

\* no entry is left and none was resolved: the error is logged and main returns
NoEvents ==
    /\ pc = "extract"
    /\ eventIdx = Len(markdownText.entries)
    /\ Len(events) = 0
    /\ pc' = "done"
    /\ UNCHANGED <<fetchOutcome, markdownText, currentYear, detectedYear, eventIdx, events,
                   successCount, failCount, warned, jsonFile, icsFile>>
    /\ UNCHANGED parseVars

\* WriteOutputs without the return on an empty events array before it
WriteOutputsAlways ==
    /\ pc = "extract"
    /\ eventIdx = Len(markdownText.entries)
    /\ events' = SortEvents(events)
    /\ jsonFile' = Written(JsonRecords(events'))
    /\ icsFile' = Written(generateICS(events'))
    /\ pc' = "done"
    /\ UNCHANGED <<fetchOutcome, markdownText, currentYear, detectedYear, eventIdx,
                   successCount, failCount, warned>>
    /\ UNCHANGED parseVars

\* no entry is left: the events are sorted, events.json and then events.ics are
\* written, both writes succeeding
WriteOutputs ==
    /\ pc = "extract"
    /\ eventIdx = Len(markdownText.entries)
    /\ Len(events) # 0
    /\ events' = SortEvents(events)
    /\ jsonFile' = Written(JsonRecords(events'))
    /\ icsFile' = Written(generateICS(events'))
    /\ pc' = "done"
    /\ UNCHANGED <<fetchOutcome, markdownText, currentYear, detectedYear, eventIdx,
                   successCount, failCount, warned>>
    /\ UNCHANGED parseVars

\* the write of events.json throws: the events are sorted, events.json is left as it
\* was or cut off, events.ics is not reached, main's catch logs the error and main ends
WriteJsonFails ==
    /\ pc = "extract"
    /\ eventIdx = Len(markdownText.entries)
    /\ Len(events) # 0
    /\ events' = SortEvents(events)
    /\ jsonFile' \in FailedWrites(jsonFile, JsonRecords(events'))
    /\ pc' = "caught"
    /\ UNCHANGED <<fetchOutcome, markdownText, currentYear, detectedYear, eventIdx,
                   successCount, failCount, warned, icsFile>>
    /\ UNCHANGED parseVars

\* events.json is written and the write of events.ics throws: events.ics is left as
\* it was or cut off, main's catch logs the error and main ends
WriteIcsFails ==
    /\ pc = "extract"
    /\ eventIdx = Len(markdownText.entries)
    /\ Len(events) # 0
    /\ events' = SortEvents(events)
    /\ jsonFile' = Written(JsonRecords(events'))
    /\ icsFile' \in FailedWrites(icsFile, generateICS(events'))
    /\ pc' = "caught"
    /\ UNCHANGED <<fetchOutcome, markdownText, currentYear, detectedYear, eventIdx,
                   successCount, failCount, warned>>
    /\ UNCHANGED parseVars

Next ==
    \/ FetchResolve
    \/ FetchRejectStatus
    \/ FetchRejectError
    \/ DetectYear
    \/ ExtractEvent
    \/ NoEvents
    \/ WriteOutputs
    \/ WriteJsonFails
    \/ WriteIcsFails

Spec == Init /\ [][Next]_vars

\* the resolver called on the phrases with several separators
InitSeparators ==
    /\ words \in SeparatorPhrases
    /\ year = NoYear
    /\ result = NotReturned
    /\ MainIdle

SpecSeparators == InitSeparators /\ [][NextParse]_vars

\* the resolver called on the phrases whose days are past their month's end
InitOverflow ==
    /\ words \in OverflowPhrases
    /\ year = NoYear
    /\ result = NotReturned
    /\ MainIdle

SpecOverflow == InitOverflow /\ [][NextParse]_vars

(***************************************************************************)
(* The calendar the properties are stated with                             *)
(***************************************************************************)
IsLeapYear(y) == (y % 4 = 0 /\ y % 100 # 0) \/ y % 400 = 0

DaysInMonth(y, m) ==
    IF m = 2 THEN (IF IsLeapYear(y) THEN 29 ELSE 28)
    ELSE IF m \in {4, 6, 9, 11} THEN 30 ELSE 31

\* day d >= 1 counted from the first of month m of year y, past the month's end if d is
RECURSIVE RollForward(_, _, _)
RollForward(y, m, d) ==
    IF d <= DaysInMonth(y, m) THEN [y |-> y, m |-> m, d |-> d]
    ELSE IF m = 12 THEN RollForward(y + 1, 1, d - DaysInMonth(y, m))
    ELSE RollForward(y, m + 1, d - DaysInMonth(y, m))

DayAfter(c) == RollForward(c.y, c.m, c.d + 1)

ValidDay(y, m, d) == 1 <= d /\ d <= DaysInMonth(y, m)

TwoDigits(n) == <<DigitChars[(n \div 10) + 1], DigitChars[(n % 10) + 1]>>

\* YYYY-MM-DD of a civil date of the years 0..9999
IsoText(c) ==
    TwoDigits(c.y \div 100) \o TwoDigits(c.y % 100) \o <<"-">> \o TwoDigits(c.m)
        \o <<"-">> \o TwoDigits(c.d)

\* an event from the civil date first to the civil date last, the end exclusive
Resolved(first, last) == [startDate |-> IsoText(first), endDate |-> IsoText(DayAfter(last))]

RECURSIVE NumberOf(_)
NumberOf(ds) == IF ds = <<>> THEN 0 ELSE 10 * NumberOf(SubSeq(ds, 1, Len(ds) - 1)) + DigitValue[ds[Len(ds)]]

\* an ISO date as the number YYYYMMDD
IsoNumber(iso) == NumberOf(SelectSeq(iso, IsDigit))

\* the non-empty text t stands somewhere in p
ContainsText(p, t) ==
    \E i \in 1..(Len(p) - Len(t) + 1) : p[i] = t[1] /\ SubSeq(p, i, i + Len(t) - 1) = t

HasSeparator(p) == ContainsText(p, <<" ", "-", " ">>) \/ ContainsText(p, <<" ", "t", "o", " ">>)

RECURSIVE MonthFrom(_, _)
MonthFrom(lower, k) ==
    IF k > 12 THEN 0 ELSE IF ContainsText(lower, monthMap[k]) THEN k ELSE MonthFrom(lower, k + 1)

\* the first month, in the order January..December, whose name occurs in p; 0 for none
MonthNamed(p) == MonthFrom(ToLowerCase(p), 1)

RECURSIVE LeadingDigits(_)
LeadingDigits(p) == IF p # <<>> /\ IsDigit(Head(p)) THEN <<Head(p)>> \o LeadingDigits(Tail(p)) ELSE <<>>

\* the first run of digits of p, <<>> for none
RECURSIVE FirstDigits(_)
FirstDigits(p) ==
    IF p = <<>> THEN <<>>
    ELSE IF IsDigit(Head(p)) THEN LeadingDigits(p) ELSE FirstDigits(Tail(p))

\* the phrase parseDate was called on, and what it returned
Phrase == JoinWords(words)
Returned == [startDate |-> result.startDate, endDate |-> result.endDate]

\* the words of the phrase, "31 January" as the two it is
RECURSIVE Flat(_)
Flat(ws) ==
    IF ws = <<>> THEN <<>>
    ELSE (IF Head(ws) = w31January THEN <<w31, wJanuary>> ELSE <<Head(ws)>>) \o Flat(Tail(ws))

DayWords == {w31, w3rd}
MonthWords == {wJanuary, wApril}
DayOfWord(w) == IF w = w31 THEN 31 ELSE 3
MonthOfWord(w) == IF w = wJanuary THEN 1 ELSE 4

\* the value of the phrase's standalone four-digit token, the context year without one
YearInForce(p, ctxYear) == IF YearMatch(p) # <<>> THEN NumberOf(YearMatch(p)) ELSE ctxYear

(***************************************************************************)
(* C1                                                                      *)
(***************************************************************************)
\* C1: whatever the phrase and the context year, parseDate returns two nulls, or two
\* dates with endDate on or after startDate.
C1_EndNotBeforeStart ==
    result.returned =>
        \/ result.startDate = Null /\ result.endDate = Null
        \/ /\ result.startDate # Null
           /\ result.endDate # Null
           /\ IsoNumber(result.endDate) >= IsoNumber(result.startDate)

(***************************************************************************)
(* C2                                                                      *)
(***************************************************************************)
Example_4thMarch ==
    parseDate(JoinWords(<<w4th, wMarch>>), 2025)
        = Resolved([y |-> 2025, m |-> 3, d |-> 4], [y |-> 2025, m |-> 3, d |-> 4])

\* what parseDate looks for the month and the day in: the phrase without its ordinal
\* suffixes and without the first ", <year>" of its four-digit token
Searched(p, ctxYear) == YearOverride(StripOrdinals(p), ctxYear).dateStr

\* new Date's reading of a year: 0..99 is 1900..1999
FullYear(y) == IF 0 <= y /\ y <= 99 THEN 1900 + y ELSE y

\* C2 as stated: a phrase with no separator that holds a month name and a run of
\* digits resolves to the day (year, M, D) and the day after it, M the first month of
\* the table named in the phrase and D the first run of digits once the ordinal
\* suffixes are stripped.
C2_SingleDayAsStated ==
    (/\ result.returned
     /\ ~HasSeparator(Phrase)
     /\ MonthNamed(Phrase) # 0
     /\ FirstDigits(StripOrdinals(Phrase)) # <<>>)
    => LET day == RollForward(FullYear(YearInForce(StripOrdinals(Phrase), year)),
                              MonthNamed(Phrase),
                              NumberOf(FirstDigits(StripOrdinals(Phrase))))
       IN  Returned = Resolved(day, day)

\* a phrase of one day: no separator, a month name and a run of digits
IsSingleDayPhrase(text) ==
    /\ ~HasSeparator(text)
    /\ MonthNamed(text) # 0
    /\ FirstDigits(text) # <<>>

\* the day the first run of digits and the first month of the table name in year y,
\* and the day after it
SingleDay(text, y) ==
    LET day == RollForward(y, MonthNamed(text), NumberOf(FirstDigits(text)))
    IN  Resolved(day, day)

\* C2 amended: the phrase does not hold "not announced yet", and the separator, the
\* month name and the first run of digits are those of the phrase once the ordinal
\* suffixes and the ", <year>" of its four-digit token are removed; the year is the
\* token's value (1900 more if it is below 100), the context year without a token.
C2_SingleDay ==
    /\ Example_4thMarch
    /\ (/\ result.returned
        /\ ~ContainsText(ToLowerCase(Phrase), notAnnouncedYet)
        /\ IsSingleDayPhrase(Searched(Phrase, year)))
       => Returned = SingleDay(Searched(Phrase, year),
                               FullYear(YearInForce(StripOrdinals(Phrase), year)))

C2_Witness ==
    /\ result.returned
    /\ words = <<wJanuary, w3rd, wApril>>
    /\ year = 2025
    /\ Returned = Resolved([y |-> 2025, m |-> 1, d |-> 3], [y |-> 2025, m |-> 1, d |-> 3])

(***************************************************************************)
(* C3                                                                      *)
(***************************************************************************)
Example_DecemberJanuary ==
    parseDate(JoinWords(<<w28, wDecember, wDash, w2, wJanuary>>), 2025)
        = Resolved([y |-> 2025, m |-> 12, d |-> 28], [y |-> 2026, m |-> 1, d |-> 2])

IsTwoMonthRange(ws) ==
    /\ Len(ws) = 5
    /\ ws[1] \in DayWords /\ ws[2] \in MonthWords
    /\ ws[3] = wDash
    /\ ws[4] \in DayWords /\ ws[5] \in MonthWords

\* C3: a range "D1 M1 - D2 M2" of valid days with context year Y starts on (Y, M1, D1);
\* it ends the day after (Y + 1, M2, D2) if M2 < M1 and the day after (Y, M2, D2) if not.
C3_YearRollover ==
    /\ Example_DecemberJanuary
    /\ LET ws == Flat(words)
       IN  (result.returned /\ IsTwoMonthRange(ws))
           => LET d1 == DayOfWord(ws[1])
                  m1 == MonthOfWord(ws[2])
                  d2 == DayOfWord(ws[4])
                  m2 == MonthOfWord(ws[5])
                  endYear == IF m2 < m1 THEN year + 1 ELSE year
              IN  (ValidDay(year, m1, d1) /\ ValidDay(endYear, m2, d2) /\ ValidDay(year, m2, d2))
                  => Returned = Resolved([y |-> year, m |-> m1, d |-> d1],
                                         [y |-> endYear, m |-> m2, d |-> d2])

\* a range that wraps the year
C3_Witness ==
    /\ result.returned
    /\ words = <<w3rd, wApril, wDash, w31January>>
    /\ year = 2024
    /\ Returned = Resolved([y |-> 2024, m |-> 4, d |-> 3], [y |-> 2025, m |-> 1, d |-> 31])

(***************************************************************************)
(* C4                                                                      *)
(***************************************************************************)
Example_18_19January ==
    parseDate(JoinWords(<<w18, wDash, w19, wJanuary>>), 2025)
        = Resolved([y |-> 2025, m |-> 1, d |-> 18], [y |-> 2025, m |-> 1, d |-> 19])

\* "D1 - D2 M" and "D1 M - D2", with " - " or " to ", a ", 2026" behind it or not
MonthAtEnd(ws) ==
    /\ Len(ws) = 4
    /\ ws[1] \in DayWords /\ ws[2] \in {wDash, wTo} /\ ws[3] \in DayWords /\ ws[4] \in MonthWords

MonthAtStart(ws) ==
    /\ Len(ws) = 4
    /\ ws[1] \in DayWords /\ ws[2] \in MonthWords /\ ws[3] \in {wDash, wTo} /\ ws[4] \in DayWords

IsOneMonthRange(ws) == MonthAtEnd(ws) \/ MonthAtStart(ws)

\* C4: a range of which one part only names a month M runs from day D1 of M to day D2
\* of M: startDate is (year, M, D1) and endDate the day after (year, M, D2).
C4_OneMonthNamed ==
    /\ Example_18_19January
    /\ \A yearWord \in {<<>>, <<wCommaYear>>} :
       \A ws \in {SubSeq(Flat(words), 1, Len(Flat(words)) - Len(yearWord))} :
          (result.returned /\ Flat(words) = ws \o yearWord /\ IsOneMonthRange(ws))
          => LET m == MonthOfWord(IF MonthAtEnd(ws) THEN ws[4] ELSE ws[2])
                 d1 == DayOfWord(ws[1])
                 d2 == DayOfWord(IF MonthAtEnd(ws) THEN ws[3] ELSE ws[4])
                 yr == IF yearWord = <<>> THEN year ELSE 2026
             IN  Returned = Resolved(RollForward(yr, m, d1), RollForward(yr, m, d2))

C4_Witness ==
    /\ result.returned
    /\ words = <<w3rd, wJanuary, wTo, w31>>
    /\ year = 2025
    /\ Returned = Resolved([y |-> 2025, m |-> 1, d |-> 3], [y |-> 2025, m |-> 1, d |-> 31])

(***************************************************************************)
(* C5                                                                      *)
(***************************************************************************)
Example_NotAnnouncedUpper ==
    /\ parseDate(wNotAnnounced, 2025) = NullResult
    /\ parseDate(JoinWords(<<w5, wMarch, wDash, wNotAnnouncedUpper, wCommaYear>>), 2025) = NullResult

\* C5: a phrase that holds "not announced yet", in any case of the letters, resolves
\* to two nulls, whatever else it holds and whatever the context year.
C5_NotAnnounced ==
    /\ Example_NotAnnouncedUpper
    /\ (result.returned /\ \E i \in 1..Len(words) : words[i] = wNotAnnounced)
       => Returned = NullResult

C5_Witness ==
    /\ result.returned
    /\ words = <<w31January, wDash, wNotAnnounced, wCommaYear>>
    /\ Returned = NullResult

(***************************************************************************)
(* C6                                                                      *)
(***************************************************************************)
\* C6: a phrase made of a month name and a four-digit year, with no other digit,
\* resolves to two nulls: the year is never taken for the day.
C6_BareYearUnresolved ==
    (/\ result.returned
     /\ \E m \in MonthWords : words \in {<<m, wYear>>, <<m, wCommaYear>>})
    => Returned = NullResult

(***************************************************************************)
(* C7                                                                      *)
(***************************************************************************)
\* a run of exactly four digits between two characters that are not of a word
HasYearToken(p) ==
    \E i \in 1..Len(p) :
        /\ i + 3 <= Len(p)
        /\ \A k \in i..(i + 3) : IsDigit(p[k])
        /\ (i > 1 => ~IsWordChar(p[i - 1]))
        /\ (i + 3 < Len(p) => ~IsWordChar(p[i + 4]))

YearWords == {wCommaYear, wCommaOldYear}
YearOfWord(w) == IF w = wCommaYear THEN 2026 ELSE 50

\* "D Month, YYYY" and "D1 - D2 Month, YYYY"
IsDatedPhrase(ws) ==
    \/ /\ Len(ws) = 3
       /\ ws[1] \in DayWords /\ ws[2] \in MonthWords /\ ws[3] \in YearWords
    \/ /\ Len(ws) = 5
       /\ ws[1] \in DayWords /\ ws[2] = wDash /\ ws[3] \in DayWords
       /\ ws[4] \in MonthWords /\ ws[5] \in YearWords

DaysAreValid(ws) ==
    LET m == MonthOfWord(ws[Len(ws) - 1])
        yr == FullYear(YearOfWord(ws[Len(ws)]))
    IN  /\ ValidDay(yr, m, DayOfWord(ws[1]))
        /\ Len(ws) = 5 => ValidDay(yr, m, DayOfWord(ws[3]))

StartYear == NumberOf(SubSeq(result.startDate, 1, 4))

SameForEveryContextYear ==
    \A other \in ContextYears \ {year} : parseDate(Phrase, other) = Returned

\* C7 as stated: with a standalone four-digit token in the phrase the result is the
\* same for every context year, and the startDate of "D Month, YYYY" and
\* "D1 - D2 Month, YYYY" is of the year YYYY.
C7_YearTokenAsStated ==
    (result.returned /\ HasYearToken(Phrase))
    => /\ SameForEveryContextYear
       /\ (IsDatedPhrase(Flat(words)) /\ DaysAreValid(Flat(words)))
          => (result.startDate # Null /\ StartYear = YearOfWord(words[Len(words)]))

\* C7 amended: the startDate is of the year YYYY if YYYY is 0100 or more, and of the
\* year 1900 + YYYY if YYYY is 0000..0099.
C7_YearToken ==
    (result.returned /\ HasYearToken(Phrase))
    => /\ SameForEveryContextYear
       /\ (IsDatedPhrase(Flat(words)) /\ DaysAreValid(Flat(words)))
          => (result.startDate # Null /\ StartYear = FullYear(YearOfWord(words[Len(words)])))

C7_Witness ==
    /\ result.returned
    /\ words = <<w3rd, wDash, w31January, wCommaYear>>
    /\ year = 2024
    /\ Returned = Resolved([y |-> 2026, m |-> 1, d |-> 3], [y |-> 2026, m |-> 1, d |-> 31])

(***************************************************************************)
(* C8                                                                      *)
(***************************************************************************)
Entries == markdownText.entries

\* the phrases of the documents that name no date; a run that meets the phrase whose
\* day is beyond the Date range writes nothing
Unresolvable == {wNotAnnounced, wTBD}

\* the entries, by their place in the document, whose phrase names a date
ResolvedEntries == {i \in 1..Len(Entries) : Entries[i].date \notin Unresolvable}

LinesNamed(n) == LET Is(l) == l.name = n IN SelectSeq(icsFile.content, Is)

\* the VEVENT blocks of events.ics: their BEGIN lines
VEventCount == LET IsBegin(l) == l.name = "BEGIN" /\ l.value = "VEVENT"
               IN  Len(SelectSeq(icsFile.content, IsBegin))

JsonNames == [i \in 1..Len(jsonFile.content) |-> jsonFile.content[i].name]
IcsNames == [i \in 1..Len(LinesNamed("SUMMARY")) |-> LinesNamed("SUMMARY")[i].value]

\* the run wrote its output: both files, each of them whole
OutputWritten == jsonFile.whole /\ icsFile.whole

\* C8: in a run that writes its output, every entry was looked at, the records of
\* events.json, the VEVENT blocks of events.ics and successCount all number the entries
\* whose phrase resolved, and the two files hold those entries and no others; a file
\* that a failed write has cut off holds no other entry either.
C8_SkippedNotStopped ==
    /\ jsonFile.written =>
            /\ successCount + failCount = Len(Entries)
            /\ successCount = Cardinality(ResolvedEntries)
            /\ Range(JsonNames) \subseteq ResolvedEntries
    /\ jsonFile.whole =>
            /\ Len(jsonFile.content) = successCount
            /\ Range(JsonNames) = ResolvedEntries
    /\ icsFile.written =>
            /\ jsonFile.whole
            /\ Range(IcsNames) \subseteq ResolvedEntries
    /\ icsFile.whole =>
            /\ VEventCount = successCount
            /\ VEventCount = Len(jsonFile.content)
            /\ Range(IcsNames) = ResolvedEntries

\* an entry that resolves behind one that does not
C8_Witness ==
    /\ OutputWritten
    /\ Len(Entries) = 3
    /\ Entries[1].date = wNotAnnounced
    /\ Entries[2].date = wTBD
    /\ 3 \in Range(JsonNames)
    /\ failCount = 2

(***************************************************************************)
(* C9                                                                      *)
(***************************************************************************)
\* C9: a file is written only after the fetch resolved and an event was resolved; a
\* run whose fetch was rejected, or that resolved no event, ends with neither written.
C9_NoWriteOnFailure ==
    /\ (jsonFile.written \/ icsFile.written)
       => (fetchOutcome = "resolved" /\ successCount >= 1 /\ Len(events) >= 1)
    /\ fetchOutcome \in {"status", "error"} => (pc = "caught" /\ ~jsonFile.written /\ ~icsFile.written)
    /\ (pc \in {"done", "caught"} /\ successCount = 0)
       => (~jsonFile.written /\ ~icsFile.written)

\* a run that fetched a document with entries and resolved none of them
C9_Witness ==
    /\ pc = "done"
    /\ fetchOutcome = "resolved"
    /\ Len(Entries) = 2
    /\ successCount = 0
    /\ ~jsonFile.written /\ ~icsFile.written

(***************************************************************************)
(* C10                                                                     *)
(***************************************************************************)
DateOfLine(l) == SubSeq(l.value, 1, 8)

\* C10: events.json and events.ics list the same events in the same order, ascending
\* by start_date, events of one start_date in the order of the document, and each
\* DTSTART and DTEND is the record's start_date and end_date.
C10_SortedSameOrder ==
    /\ jsonFile.written =>
          \A i, j \in 1..Len(jsonFile.content) :
              i < j =>
                LET a == jsonFile.content[i]
                    b == jsonFile.content[j]
                IN  \/ IsoNumber(a.start_date) < IsoNumber(b.start_date)
                    \/ IsoNumber(a.start_date) = IsoNumber(b.start_date) /\ a.name < b.name
    /\ OutputWritten =>
        /\ IcsNames = JsonNames
        /\ \A i \in 1..Len(jsonFile.content) :
              /\ DateOfLine(LinesNamed("DTSTART")[i]) = SelectSeq(jsonFile.content[i].start_date, IsDigit)
              /\ DateOfLine(LinesNamed("DTEND")[i]) = SelectSeq(jsonFile.content[i].end_date, IsDigit)

\* two events of one start_date behind a later one in the document
C10_Witness ==
    /\ OutputWritten
    /\ JsonNames = <<3, 1, 2>>
    /\ jsonFile.content[2].start_date = jsonFile.content[3].start_date
    /\ jsonFile.content[2].end_date # jsonFile.content[3].end_date

(***************************************************************************)
(* C11                                                                     *)
(***************************************************************************)
\* the pieces of p between the occurrences of t, taken from the left, none of them
\* overlapping another; piece is the piece being read
RECURSIVE PiecesOf(_, _, _)
PiecesOf(p, t, piece) ==
    IF p = <<>> THEN <<piece>>
    ELSE IF Len(p) >= Len(t) /\ SubSeq(p, 1, Len(t)) = t
    THEN <<piece>> \o PiecesOf(SubSeq(p, Len(t) + 1, Len(p)), t, <<>>)
    ELSE PiecesOf(Tail(p), t, Append(piece, Head(p)))

RECURSIVE MonthBack(_, _)
MonthBack(lower, k) ==
    IF k < 1 THEN 0 ELSE IF ContainsText(lower, monthMap[k]) THEN k ELSE MonthBack(lower, k - 1)

\* the last month, in the order January..December, whose name occurs in p; 0 for none
LastMonthNamed(p) == MonthBack(ToLowerCase(p), 12)

\* the civil date a is before the civil date b
Before(a, b) == a.y * 10000 + a.m * 100 + a.d < b.y * 10000 + b.m * 100 + b.d

NoDates == [startDate |-> Null, endDate |-> Null]

\* what a range of the two pieces a and b of the phrase whole is in year y: each piece
\* gives its first run of digits and the last month it names; a start piece without a
\* month takes the first month of the whole phrase, an end piece without one the
\* start's month; an end before the start in a lower month is moved to the year y + 1
RangeOf(a, b, whole, y) ==
    LET startMonth == IF LastMonthNamed(a) # 0 THEN LastMonthNamed(a) ELSE MonthNamed(whole)
        endMonth == IF LastMonthNamed(b) # 0 THEN LastMonthNamed(b) ELSE startMonth
    IN  IF FirstDigits(a) = <<>> \/ FirstDigits(b) = <<>> \/ startMonth = 0 \/ endMonth = 0
        THEN NoDates
        ELSE LET first == RollForward(y, startMonth, NumberOf(FirstDigits(a)))
                 last == RollForward(y, endMonth, NumberOf(FirstDigits(b)))
             IN  IF Before(last, first) /\ endMonth < startMonth
                 THEN Resolved(first, RollForward(y + 1, last.m, last.d))
                 ELSE Resolved(first, last)

\* what a phrase that holds a separator resolves to: split on " - " if it holds " - ",
\* on " to " if not, it names a range when the split gives two pieces and nothing when
\* it gives more
SplitOutcome(text, y) ==
    LET separator == IF ContainsText(text, <<" ", "-", " ">>)
                     THEN <<" ", "-", " ">> ELSE <<" ", "t", "o", " ">>
        pieces == PiecesOf(text, separator, <<>>)
    IN  IF Len(pieces) # 2 THEN NoDates
        ELSE RangeOf(pieces[1], pieces[2], text, y)

\* two " - " leave nothing, whatever month and days the phrase names; with " - " and
\* " to " the phrase is split on " - "
Example_TwoSeparators ==
    /\ parseDate(JoinWords(<<w4, wDash, w5, wDash, w6, wMarch>>), 2025) = NullResult
    /\ parseDate(JoinWords(<<w4, wDash, w5, wTo, w6, wMarch>>), 2025)
          = Resolved([y |-> 2025, m |-> 3, d |-> 4], [y |-> 2025, m |-> 3, d |-> 5])
    /\ parseDate(JoinWords(<<w4, wTo, w5, wDash, wMarch>>), 2025) = NullResult

\* C11: a phrase that holds a separator (once the ordinal suffixes and the year's text
\* are removed) is split on " - " if it holds " - ", whether or not it holds " to ", and
\* on " to " otherwise; if the split gives more than two pieces parseDate returns two
\* nulls, whatever month names and digits the phrase holds, and if it gives two the
\* result is the range of these two pieces.
C11_DashBeforeTo ==
    /\ Example_TwoSeparators
    /\ (/\ result.returned
        /\ ~ContainsText(ToLowerCase(Phrase), notAnnouncedYet)
        /\ HasSeparator(Searched(Phrase, year)))
       => Returned = SplitOutcome(Searched(Phrase, year),
                                  FullYear(YearInForce(StripOrdinals(Phrase), year)))

\* a phrase with a month, a day and both separators, " - " twice: three pieces
C11_Witness ==
    /\ result.returned
    /\ words = <<w3rd, wDash, wTo, wDash, wApril>>
    /\ year = 2025
    /\ Len(PiecesOf(Phrase, <<" ", "-", " ">>, <<>>)) = 3
    /\ ContainsText(Phrase, <<" ", "t", "o", " ">>)
    /\ Returned = NoDates

(***************************************************************************)
(* C12                                                                     *)
(***************************************************************************)
Example_31April ==
    \A y \in ContextYears :
        parseDate(JoinWords(<<w31, wApril>>), y)
            = Resolved([y |-> y, m |-> 5, d |-> 1], [y |-> y, m |-> 5, d |-> 1])

\* the call was made: it returned or it threw
Called == result # NotReturned

\* the two pieces of a phrase that holds a separator; <<>> if they are not two
TwoPieces(text) ==
    LET separator == IF ContainsText(text, <<" ", "-", " ">>)
                     THEN <<" ", "-", " ">> ELSE <<" ", "t", "o", " ">>
        pieces == PiecesOf(text, separator, <<>>)
    IN  IF Len(pieces) = 2 THEN pieces ELSE <<>>

\* the month of the first day of a range of the pieces a and b, and of its last day
FirstDayMonth(a, whole) ==
    IF LastMonthNamed(a) # 0 THEN LastMonthNamed(a) ELSE MonthNamed(whole)

LastDayMonth(a, b, whole) ==
    IF LastMonthNamed(b) # 0 THEN LastMonthNamed(b) ELSE FirstDayMonth(a, whole)

\* the phrase names a range of two days, each with a month
NamesRange(text) ==
    /\ HasSeparator(text)
    /\ TwoPieces(text) # <<>>
    /\ FirstDigits(TwoPieces(text)[1]) # <<>>
    /\ FirstDigits(TwoPieces(text)[2]) # <<>>
    /\ FirstDayMonth(TwoPieces(text)[1], text) # 0
    /\ LastDayMonth(TwoPieces(text)[1], TwoPieces(text)[2], text) # 0

\* the phrase names one day or a range of two, and the number of a day it names is
\* past the end of the day's month in year y
IsOverflowingDay(text, y) ==
    \/ /\ IsSingleDayPhrase(text)
       /\ NumberOf(FirstDigits(text)) > DaysInMonth(y, MonthNamed(text))
    \/ /\ NamesRange(text)
       /\ \/ NumberOf(FirstDigits(TwoPieces(text)[1]))
                > DaysInMonth(y, FirstDayMonth(TwoPieces(text)[1], text))
          \/ NumberOf(FirstDigits(TwoPieces(text)[2]))
                > DaysInMonth(y, LastDayMonth(TwoPieces(text)[1], TwoPieces(text)[2], text))

\* the dates of the phrase in year y with every day counted on from the first of its
\* month, past the month's end if its number is
RolledOver(text, y) ==
    IF HasSeparator(text) THEN SplitOutcome(text, y) ELSE SingleDay(text, y)

\* the phrase with a day of every month in the place of its days
RECURSIVE Tame(_)
Tame(ws) ==
    IF ws = <<>> THEN <<>>
    ELSE <<IF Head(ws) \in {w31, wHugeDay} THEN w3rd
           ELSE IF Head(ws) = w31February THEN w3rd \o <<" ">> \o wFebruary
           ELSE Head(ws)>> \o Tame(Tail(ws))

\* the call returns the dates of its phrase with the days counted on past their
\* month's end, for a phrase of one day and for a range
OverflowRolledOver ==
    (Called /\ ~ContainsText(ToLowerCase(Phrase), notAnnouncedYet)
            /\ IsOverflowingDay(Searched(Phrase, year),
                                FullYear(YearInForce(StripOrdinals(Phrase), year))))
    => /\ result.returned
       /\ Returned = RolledOver(Searched(Phrase, year),
                                FullYear(YearInForce(StripOrdinals(Phrase), year)))

\* days past their month's end never change whether the call gives two nulls
OverflowNeverNull ==
    Called => ((result.returned /\ Returned = NoDates)
                  <=> parseDate(JoinWords(Tame(words)), year) = NullResult)

\* C12: a day number D past the end of the named month M is not rejected: whatever D
\* is, in a phrase of one day or in a range, the call returns the date D - (length of
\* M) days into the following months (and the day after the last date as the end);
\* "31 April" in year Y gives Y-05-01 and Y-05-02, and no phrase gives two nulls
\* because a day is past its month's end.
C12_NoDayValidation ==
    /\ Example_31April
    /\ OverflowRolledOver
    /\ OverflowNeverNull

\* the call threw on a day number past its month's end
OverflowThrew ==
    /\ result = Threw
    /\ IsOverflowingDay(Searched(Phrase, year),
                        FullYear(YearInForce(StripOrdinals(Phrase), year)))

\* a range whose last day is past its month's end and moves to the next year
OverflowInRange ==
    /\ result.returned
    /\ words = <<w3rd, wApril, wDash, w31February>>
    /\ year = 2024
    /\ Returned = Resolved([y |-> 2024, m |-> 4, d |-> 3], [y |-> 2025, m |-> 3, d |-> 2])

====
